---- MODULE Spec2Model ----
(***************************************************************************)
(* Conway's Game of Life core of the refactoring plan: Cell, Position,     *)
(* GridSize, Generation, Grid, GameRules and GameEngine as given in        *)
(* cohesion-guide/README.md (Tasks 2.2, 2.3, 3.1, 3.3, 3.4).               *)
(*                                                                         *)
(* A Cell is modelled by its `alive` attribute (a BOOLEAN), a Generation   *)
(* by its `number`, a Position and a GridSize by records, and a Grid by    *)
(* the record of its _size and its _cells dictionary (a function whose     *)
(* DOMAIN is the set of keys the dictionary holds).                        *)
(***************************************************************************)
EXTENDS Integers, Sequences, FiniteSets, TLC

VARIABLES
    pc,                 \* where the program is: "start", "seeding", "created",
                        \* "render", "sleep", "step", "advance", "stopped"
    grid,               \* the Grid being seeded, then GameEngine.grid
    generation,         \* GameEngine.generation.number
    call,               \* the last call made on the Grid while it is built:
                        \* its name, whether its position was in bounds, its
                        \* Cell (argument of set_cell, result of get_cell)
                        \* and whether it raised ValueError
    exit_message,       \* the generation numbers reported by _handle_exit
    grid_replacements,  \* history: how often step() has assigned self.grid
    completed_steps,    \* history: how often step() has returned
    rendered,           \* history: the (grid, generation) snapshots passed to
                        \* Display.render, in order
    cycle,              \* history: what run() has done since it was entered
                        \* or since the last completed step ("render", "delay")
    interrupted_at,     \* history: where run() was when the KeyboardInterrupt
                        \* was raised ("none" before)
    twin,               \* a second GameEngine (its grid and generation.number),
                        \* built by a test on an equal initial grid
    pattern,            \* the pattern a golden-master test has seeded: its
                        \* name and the position of its top-left corner
    config,             \* the GameConfig a test has tried to construct: its
                        \* grid_size, its initial_density and the ValueError
                        \* __post_init__ raised ("none" when it raised none)
    memory              \* the Grid objects by reference: the objects that
                        \* exist, the one GameEngine.grid refers to, the
                        \* collaborators the engine refers to, and what
                        \* Display.render was handed and saw

vars == <<pc, grid, generation, call, exit_message,
          grid_replacements, completed_steps,
          rendered, cycle, interrupted_at, twin, pattern, config, memory>>

(***************************************************************************)
(* Bounds of the model.                                                    *)
(***************************************************************************)
\* a grid has at most MaxCells cells (width * height <= MaxCells)
MaxCells == 9
\* widths and heights from -NegDims up to MaxSide are tried
MaxSide == 3
NegDims == 1
\* the run loop is followed for MaxGen steps
MaxGen == 4
\* the golden-master patterns are tried on grids of up to PatternSide rows
\* and columns
PatternSide == 5
\* initial_density is tried in steps of 1 / DensityScale, from -1 to 2
DensityScale == 10
\* pairs of grids are tried on sizes of at most PairCells cells
PairCells == 6

(***************************************************************************)
(* Cell                                                                    *)
(***************************************************************************)
alive_cell == TRUE

dead_cell == FALSE

is_alive(cell) == cell

is_dead(cell) == ~cell

(***************************************************************************)
(* Position                                                                *)
(***************************************************************************)
Position(r, c) == [row |-> r, col |-> c]

\* the list [-1, 0, 1] both loops of neighbors() run over
Deltas == <<0 - 1, 0, 1>>

\* the (dr, dc) pairs in the order the nested loops produce them
OffsetPairs ==
    [i \in 1..(Len(Deltas) * Len(Deltas)) |->
        [dr |-> Deltas[((i - 1) \div Len(Deltas)) + 1],
         dc |-> Deltas[((i - 1) % Len(Deltas)) + 1]]]

\* the filter forgotten: the position itself is among its neighbours
NotOrigin_forgotten(o) == TRUE

NotOrigin(o) == ~(o.dr = 0 /\ o.dc = 0)

\* the pairs that pass `if not (dr == 0 and dc == 0)`
KeptOffsets == SelectSeq(OffsetPairs, NotOrigin)

neighbors(p) ==
    [i \in 1..Len(KeptOffsets) |->
        Position(p.row + KeptOffsets[i].dr, p.col + KeptOffsets[i].dc)]

(***************************************************************************)
(* GridSize                                                                *)
(***************************************************************************)
GridSize(w, h) == [width |-> w, height |-> h]

\* rows compared with the width and columns with the height
contains_transposed(size, p) ==
    /\ 0 <= p.row /\ p.row < size.width
    /\ 0 <= p.col /\ p.col < size.height

contains(size, p) ==
    /\ 0 <= p.row /\ p.row < size.height
    /\ 0 <= p.col /\ p.col < size.width

\* range(n) as a list: 0, 1, ..., n-1 (empty when n <= 0)
range(n) == [i \in 1..(IF n > 0 THEN n ELSE 0) |-> i - 1]

RECURSIVE PositionsFromRow(_, _)
PositionsFromRow(size, i) ==
    IF i > Len(range(size.height))
    THEN <<>>
    ELSE [j \in 1..Len(range(size.width)) |->
              Position(range(size.height)[i], range(size.width)[j])]
         \o PositionsFromRow(size, i + 1)

all_positions(size) == PositionsFromRow(size, 1)

(***************************************************************************)
(* Generation                                                              *)
(***************************************************************************)
\* a slip in the increment: a number is skipped
next_skipping(number) == number + 2

next(number) == number + 1

(***************************************************************************)
(* Grid                                                                    *)
(***************************************************************************)
\* self._cells[position] = cell: the entry of an existing key is replaced,
\* a new key gets an entry
Put(cells, p, cell) ==
    IF p \in DOMAIN cells
    THEN [cells EXCEPT ![p] = cell]
    ELSE cells @@ (p :> cell)

EmptyCells == [q \in {} |-> dead_cell]

RECURSIVE InitializeFrom(_, _, _)
InitializeFrom(cells, positions, i) ==
    IF i > Len(positions)
    THEN cells
    ELSE InitializeFrom(Put(cells, positions[i], dead_cell), positions, i + 1)

\* an off-by-one slip: the first position gets no entry
initialize_empty_from_second(size) ==
    InitializeFrom(EmptyCells, all_positions(size), 2)

initialize_empty(size) == InitializeFrom(EmptyCells, all_positions(size), 1)

\* Grid(size)
Grid(size) == [size |-> size, cells |-> initialize_empty(size)]

\* the bounds check forgotten: the dictionary takes any key
set_cell_unchecked(g, p, cell) ==
    [grid |-> [g EXCEPT !.cells = Put(g.cells, p, cell)], raised |-> FALSE]

\* row and column mixed up when the cell is stored
set_cell_transposed(g, p, cell) ==
    IF ~contains(g.size, p)
    THEN [grid |-> g, raised |-> TRUE]
    ELSE [grid |-> [g EXCEPT !.cells = Put(g.cells, Position(p.col, p.row), cell)],
          raised |-> FALSE]

\* the outcome of g.set_cell(p, cell): the grid afterwards, and whether the
\* call raised ValueError
set_cell(g, p, cell) ==
    IF ~contains(g.size, p)
    THEN [grid |-> g, raised |-> TRUE]
    ELSE [grid |-> [g EXCEPT !.cells = Put(g.cells, p, cell)], raised |-> FALSE]

\* self._cells.get(position, Cell.dead_cell())
DictGet(cells, p, default) == IF p \in DOMAIN cells THEN cells[p] ELSE default

\* the toroidal policy: an index off one edge is read at the opposite edge
\* (what grid[-1] did on the list of lists of the original program)
get_cell_wrapping(g, p) ==
    IF g.size.height <= 0 \/ g.size.width <= 0
    THEN dead_cell
    ELSE DictGet(g.cells,
                 Position(p.row % g.size.height, p.col % g.size.width),
                 dead_cell)

get_cell(g, p) ==
    IF ~contains(g.size, p)
    THEN dead_cell
    ELSE DictGet(g.cells, p, dead_cell)

\* the toroidal policy in the count: no bounds check, neighbours wrap
count_living_neighbors_wrapping(g, p) ==
    LET around == neighbors(p)
    IN  Cardinality({i \in 1..Len(around) :
                        is_alive(get_cell_wrapping(g, around[i]))})

\* sum(1 for neighbor in position.neighbors() if ...): the number of
\* elements of the list that pass the test
count_living_neighbors(g, p) ==
    LET around == neighbors(p)
    IN  Cardinality({i \in 1..Len(around) :
                        /\ contains(g.size, around[i])
                        /\ is_alive(get_cell(g, around[i]))})

living_cells(g) == {p \in DOMAIN g.cells : is_alive(g.cells[p])}

(***************************************************************************)
(* GameRules                                                               *)
(***************************************************************************)
\* a slip in the survival test: "2 or more" instead of "2 or 3"
calculate_next_state_at_least_two(current_cell, living_neighbors) ==
    IF is_alive(current_cell)
    THEN IF living_neighbors >= 2 THEN alive_cell ELSE dead_cell
    ELSE IF living_neighbors = 3 THEN alive_cell ELSE dead_cell

\* a slip in the birth test: "3 or fewer" instead of "exactly 3"
calculate_next_state_birth_up_to_three(current_cell, living_neighbors) ==
    IF is_alive(current_cell)
    THEN IF living_neighbors \in {2, 3} THEN alive_cell ELSE dead_cell
    ELSE IF living_neighbors <= 3 THEN alive_cell ELSE dead_cell

calculate_next_state(current_cell, living_neighbors) ==
    IF is_alive(current_cell)
    THEN IF living_neighbors \in {2, 3} THEN alive_cell ELSE dead_cell
    ELSE IF living_neighbors = 3 THEN alive_cell ELSE dead_cell

(***************************************************************************)
(* GameEngine                                                              *)
(***************************************************************************)
\* the loop of _calculate_next_generation from the i-th position on: `acc` is
\* new_grid so far, and whether a set_cell on it has raised
RECURSIVE NextGenerationFrom(_, _, _, _)
NextGenerationFrom(g, acc, positions, i) ==
    IF i > Len(positions) \/ acc.raised
    THEN acc
    ELSE LET position == positions[i]
             current_cell == get_cell(g, position)
             neighbor_count == count_living_neighbors(g, position)
             next_cell == calculate_next_state(current_cell, neighbor_count)
         IN  NextGenerationFrom(g, set_cell(acc.grid, position, next_cell),
                                positions, i + 1)

\* the update done in place, as on the shared 2D array of the design notes:
\* a cell already written is read by the positions that follow it
RECURSIVE InPlaceFrom(_, _, _)
InPlaceFrom(acc, positions, i) ==
    IF i > Len(positions) \/ acc.raised
    THEN acc
    ELSE LET position == positions[i]
             current_cell == get_cell(acc.grid, position)
             neighbor_count == count_living_neighbors(acc.grid, position)
             next_cell == calculate_next_state(current_cell, neighbor_count)
         IN  InPlaceFrom(set_cell(acc.grid, position, next_cell), positions, i + 1)

calculate_next_generation_in_place(g) ==
    InPlaceFrom([grid |-> g, raised |-> FALSE], all_positions(g.size), 1)

\* hidden shared state: the cells are read from one module-level grid (the
\* global 2D array of the original program), not from the engine's own
calculate_next_generation_of_shared(g) ==
    NextGenerationFrom(grid, [grid |-> Grid(grid.size), raised |-> FALSE],
                       all_positions(grid.size), 1)

calculate_next_generation(g) ==
    NextGenerationFrom(g, [grid |-> Grid(g.size), raised |-> FALSE],
                       all_positions(g.size), 1)

(***************************************************************************)
(* The program: main() builds a Grid, seeds it with set_cell, hands it to  *)
(* a GameEngine and runs it until the KeyboardInterrupt.                   *)
(***************************************************************************)
\* the widths and heights tried
Dims == (0 - NegDims)..MaxSide

\* the positions the Grid is called with: every position of the grid and
\* the ring of positions just outside it
CallPositions ==
    {Position(r, c) :
        r \in (0 - 1)..(IF grid.size.height > 0 THEN grid.size.height ELSE 0),
        c \in (0 - 1)..(IF grid.size.width > 0 THEN grid.size.width ELSE 0)}

NoCall == [op |-> "none", in_bounds |-> FALSE, cell |-> dead_cell,
           raised |-> FALSE]

\* before main() has built anything
NoGrid == [size |-> GridSize(0, 0), cells |-> EmptyCells]

\* no second engine
NoTwin == [grid |-> NoGrid, generation |-> 0]

\* no pattern seeded
NoPattern == [name |-> "none", row |-> 0, col |-> 0]

NoConfig == [grid_size |-> 0, initial_density |-> 0, error |-> "unbuilt"]

NoMemory ==
    [objects |-> <<>>, self_grid |-> 0, rules |-> "none", display |-> "none",
     config |-> "none", shown |-> <<>>]

Init ==
    /\ pc = "start"
    /\ grid = NoGrid
    /\ generation = 0
    /\ call = NoCall
    /\ exit_message = <<>>
    /\ grid_replacements = 0
    /\ completed_steps = 0
    /\ rendered = <<>>
    /\ cycle = <<>>
    /\ interrupted_at = "none"
    /\ twin = NoTwin
    /\ pattern = NoPattern
    /\ config = NoConfig
    /\ memory = NoMemory

\* grid = Grid(GridSize(w, h))
NewGrid(w, h) ==
    /\ pc = "start"
    /\ (w > 0 /\ h > 0) => w * h <= MaxCells
    /\ grid' = Grid(GridSize(w, h))
    /\ pc' = "seeding"
    /\ UNCHANGED <<generation, call, exit_message, grid_replacements,
                   completed_steps>>
    /\ UNCHANGED <<rendered, cycle, interrupted_at, twin, pattern, config, memory>>

\* grid.set_cell(p, cell), called by the seeding code or a test
SetCell(p, cell) ==
    /\ pc = "seeding"
    /\ LET outcome == set_cell(grid, p, cell)
       IN  /\ call' = [op |-> "set_cell", in_bounds |-> contains(grid.size, p),
                       cell |-> cell, raised |-> outcome.raised]
           /\ grid' = outcome.grid
    /\ UNCHANGED <<pc, generation, exit_message, grid_replacements,
                   completed_steps>>
    /\ UNCHANGED <<rendered, cycle, interrupted_at, twin, pattern, config, memory>>

\* grid.get_cell(p), called by a test
GetCell(p) ==
    /\ pc = "seeding"
    /\ call' = [op |-> "get_cell", in_bounds |-> contains(grid.size, p),
                cell |-> get_cell(grid, p), raised |-> FALSE]
    /\ UNCHANGED <<pc, grid, generation, exit_message, grid_replacements,
                   completed_steps>>
    /\ UNCHANGED <<rendered, cycle, interrupted_at, twin, pattern, config, memory>>

\* engine = GameEngine(grid, config)
NewEngine ==
    /\ pc = "seeding"
    /\ generation' = 0
    /\ call' = NoCall
    /\ pc' = "created"
    /\ UNCHANGED <<grid, exit_message, grid_replacements, completed_steps>>
    /\ UNCHANGED <<rendered, cycle, interrupted_at, twin, pattern, config, memory>>

\* engine.run() is entered
Run ==
    /\ pc = "created"
    /\ pc' = "render"
    /\ UNCHANGED <<grid, generation, call, exit_message, grid_replacements,
                   completed_steps>>
    /\ UNCHANGED <<rendered, cycle, interrupted_at, twin, pattern, config, memory>>

\* a loop whose render is followed by the step, with no delay between them
Render_skipping_delay ==
    /\ pc = "render"
    /\ pc' = "step"
    /\ UNCHANGED <<grid, generation, call, exit_message, grid_replacements,
                   completed_steps>>
    /\ rendered' = Append(rendered, [grid |-> grid, generation |-> generation])
    /\ cycle' = Append(cycle, "render")
    /\ UNCHANGED <<interrupted_at, twin, pattern, config, memory>>

\* self.display.render(self.grid, self.generation)
Render ==
    /\ pc = "render"
    /\ pc' = "sleep"
    /\ UNCHANGED <<grid, generation, call, exit_message, grid_replacements,
                   completed_steps>>
    /\ rendered' = Append(rendered, [grid |-> grid, generation |-> generation])
    /\ cycle' = Append(cycle, "render")
    /\ UNCHANGED <<interrupted_at, twin, pattern, config, memory>>

\* time.sleep(self.config.delay)
Sleep ==
    /\ pc = "sleep"
    /\ pc' = "step"
    /\ UNCHANGED <<grid, generation, call, exit_message, grid_replacements,
                   completed_steps>>
    /\ cycle' = Append(cycle, "delay")
    /\ UNCHANGED <<rendered, interrupted_at, twin, pattern, config, memory>>

\* a loop that ends by itself when the grid has stopped changing
StepGrid_stopping_when_stable ==
    /\ pc = "step"
    /\ generation < MaxGen
    /\ LET outcome == calculate_next_generation(grid)
       IN  IF outcome.raised
           THEN pc' = "crashed" /\ UNCHANGED <<grid, grid_replacements>>
           ELSE IF outcome.grid = grid
                THEN pc' = "stopped" /\ UNCHANGED <<grid, grid_replacements>>
                ELSE /\ grid' = outcome.grid
                     /\ grid_replacements' = grid_replacements + 1
                     /\ pc' = "advance"
    /\ UNCHANGED <<generation, call, exit_message, completed_steps>>
    /\ UNCHANGED <<rendered, cycle, interrupted_at, twin, pattern, config, memory>>

\* step(), first statement: self.grid = self._calculate_next_generation()
StepGrid ==
    /\ pc = "step"
    /\ generation < MaxGen
    /\ LET outcome == calculate_next_generation(grid)
       IN  IF outcome.raised
           THEN pc' = "crashed" /\ UNCHANGED <<grid, grid_replacements>>
           ELSE /\ grid' = outcome.grid
                /\ grid_replacements' = grid_replacements + 1
                /\ pc' = "advance"
    /\ UNCHANGED <<generation, call, exit_message, completed_steps>>
    /\ UNCHANGED <<rendered, cycle, interrupted_at, twin, pattern, config, memory>>

\* step(), second statement: self.generation = self.generation.next()
StepGeneration ==
    /\ pc = "advance"
    /\ generation' = next(generation)
    /\ completed_steps' = completed_steps + 1
    /\ pc' = "render"
    /\ UNCHANGED <<grid, call, exit_message, grid_replacements>>
    /\ cycle' = <<>>
    /\ UNCHANGED <<rendered, interrupted_at, twin, pattern, config, memory>>

\* a handler that reports the generation the interrupted step was heading to
KeyboardInterrupt_reporting_next ==
    /\ pc \in {"render", "sleep", "step", "advance"}
    /\ exit_message' = Append(exit_message, next(generation))
    /\ pc' = "stopped"
    /\ UNCHANGED <<grid, generation, call, grid_replacements, completed_steps>>
    /\ interrupted_at' = pc
    /\ UNCHANGED <<rendered, cycle, twin, pattern, config, memory>>

\* Ctrl+C: Python raises KeyboardInterrupt in the main thread between any
\* two instructions of the try block of run(); the handler calls
\* _handle_exit, which reports self.generation, and run() returns
KeyboardInterrupt ==
    /\ pc \in {"render", "sleep", "step", "advance"}
    /\ exit_message' = Append(exit_message, generation)
    /\ pc' = "stopped"
    /\ UNCHANGED <<grid, generation, call, grid_replacements, completed_steps>>
    /\ interrupted_at' = pc
    /\ UNCHANGED <<rendered, cycle, twin, pattern, config, memory>>

Next ==
    \/ \E w \in Dims, h \in Dims : NewGrid(w, h)
    \/ \E p \in CallPositions, cell \in BOOLEAN : SetCell(p, cell)
    \/ \E p \in CallPositions : GetCell(p)
    \/ NewEngine
    \/ Run
    \/ Render
    \/ Sleep
    \/ StepGrid
    \/ StepGeneration
    \/ KeyboardInterrupt

Spec == Init /\ [][Next]_vars

(***************************************************************************)
(* Vocabulary of the properties.                                           *)
(***************************************************************************)
\* the in-bounds positions of a size, stated without all_positions
InBounds(size) ==
    {Position(r, c) : r \in 0..(size.height - 1), c \in 0..(size.width - 1)}

\* the elements of a sequence
Elements(seq) == {seq[i] : i \in 1..Len(seq)}

Running == pc \in {"render", "sleep", "step", "advance"}

\* the expected results of test_live_cell_next_state and
\* test_dead_cell_next_state for the neighbour counts 0, 1, ..., 8
LiveCellTable == <<FALSE, FALSE, TRUE, TRUE, FALSE, FALSE, FALSE, FALSE, FALSE>>

DeadCellTable == <<FALSE, FALSE, FALSE, TRUE, FALSE, FALSE, FALSE, FALSE, FALSE>>

(***************************************************************************)
(* C1: calculate_next_state is total and is Conway's table: for every cell *)
(* state and every neighbour count 0..8 the result is a Cell; an alive     *)
(* cell stays alive iff the count is 2 or 3, a dead cell becomes alive iff *)
(* the count is 3, and every cell of the current grid gets, for its own    *)
(* neighbour count, the state the table gives.                             *)
(***************************************************************************)
C1_ConwayTable ==
    /\ \A n \in 0..8 :
          /\ calculate_next_state(alive_cell, n) \in BOOLEAN
          /\ calculate_next_state(dead_cell, n) \in BOOLEAN
          /\ calculate_next_state(alive_cell, n) = LiveCellTable[n + 1]
          /\ calculate_next_state(dead_cell, n) = DeadCellTable[n + 1]
          /\ is_alive(calculate_next_state(alive_cell, n)) <=> n \in {2, 3}
          /\ is_alive(calculate_next_state(dead_cell, n)) <=> n = 3
    /\ \A p \in DOMAIN grid.cells :
          calculate_next_state(grid.cells[p], count_living_neighbors(grid, p))
            = IF grid.cells[p]
              THEN LiveCellTable[count_living_neighbors(grid, p) + 1]
              ELSE DeadCellTable[count_living_neighbors(grid, p) + 1]

\* a grid in which the rule decides a survival, a death by overcrowding and
\* a birth at once
C1_Witness ==
    /\ pc = "step"
    /\ \E p \in DOMAIN grid.cells :
          grid.cells[p] /\ count_living_neighbors(grid, p) = 2
    /\ \E p \in DOMAIN grid.cells :
          grid.cells[p] /\ count_living_neighbors(grid, p) >= 4
    /\ \E p \in DOMAIN grid.cells :
          ~grid.cells[p] /\ count_living_neighbors(grid, p) = 3

(***************************************************************************)
(* C2: step() is a synchronous update: the grid it assigns holds, at every *)
(* in-bounds position p, calculate_next_state of the pre-step cell at p    *)
(* and the pre-step neighbour count of p, and the rest of step() leaves    *)
(* that grid as it is.                                                     *)
(***************************************************************************)
C2_SynchronousUpdate ==
    [][/\ StepGrid =>
            /\ DOMAIN grid'.cells = InBounds(grid.size)
            /\ \A p \in InBounds(grid.size) :
                  grid'.cells[p] =
                    calculate_next_state(get_cell(grid, p),
                                         count_living_neighbors(grid, p))
       /\ StepGeneration => grid' = grid]_vars

\* a step has completed on a grid where an in-place update would have
\* given another result
C2_Witness ==
    /\ pc = "render"
    /\ generation >= 1
    /\ living_cells(grid) # {}
    /\ calculate_next_generation(grid) # calculate_next_generation_in_place(grid)

(***************************************************************************)
(* C3: step() replaces grid and generation as one atomic transition: in no *)
(* state outside step(), the state reported at the KeyboardInterrupt       *)
(* included, has the grid been replaced more often than the generation     *)
(* was advanced.                                                           *)
(***************************************************************************)
C3_AtomicStep == pc # "advance" => grid_replacements = generation

(***************************************************************************)
(* C4: the generation is 0 when the engine is created, every completed     *)
(* step() adds exactly 1 to it, nothing else changes it, and it always     *)
(* equals the number of completed steps (so it is never negative).         *)
(***************************************************************************)
C4_GenerationCountsSteps ==
    /\ [](/\ generation = completed_steps
          /\ generation >= 0
          /\ pc \in {"start", "seeding", "created"} => generation = 0)
    /\ [][/\ StepGeneration => generation' = generation + 1
          /\ ~StepGeneration => generation' = generation]_vars

\* the run loop was stopped after MaxGen completed steps
C4_Witness ==
    /\ pc = "stopped"
    /\ completed_steps = MaxGen
    /\ generation = MaxGen

(***************************************************************************)
(* C5: once the Grid is built, its dictionary holds an entry for exactly   *)
(* the positions of size.all_positions(), during seeding and after every   *)
(* step, and its size never changes.                                       *)
(***************************************************************************)
C5_GridFullyPopulated ==
    /\ [](pc # "start" =>
            /\ DOMAIN grid.cells = Elements(all_positions(grid.size))
            /\ DOMAIN grid.cells = InBounds(grid.size)
            /\ \A p \in DOMAIN grid.cells :
                  contains(grid.size, p) /\ grid.cells[p] \in BOOLEAN)
    /\ [][pc # "start" => grid'.size = grid.size]_vars

\* a seeded 3 x 2 grid after two steps
C5_Witness ==
    /\ Running
    /\ generation >= 2
    /\ grid.size = GridSize(3, 2)
    /\ Cardinality(DOMAIN grid.cells) = 6
    /\ living_cells(grid) # {}

(***************************************************************************)
(* C6: for every grid and every position p, count_living_neighbors(p) is   *)
(* the number of in-bounds positions other than p, at most one row and one *)
(* column away from p, that hold an alive cell: it lies in 0..8, p itself  *)
(* is not counted and nothing is read across an edge.                      *)
(***************************************************************************)
Adjacent(p, q) ==
    /\ q # p
    /\ q.row - p.row \in {0 - 1, 0, 1}
    /\ q.col - p.col \in {0 - 1, 0, 1}

LivingAround(g, p) ==
    {q \in InBounds(g.size) : Adjacent(p, q) /\ g.cells[q]}

C6_NeighbourCount ==
    pc # "start" =>
        \A p \in CallPositions :
            LET count == count_living_neighbors(grid, p)
            IN  /\ count = Cardinality(LivingAround(grid, p))
                /\ count \in 0..8
                /\ count <= Cardinality(Elements(neighbors(p))
                                          \cap InBounds(grid.size))

\* a grid with a living corner cell whose three neighbours are alive too,
\* while the cells of the opposite edges are alive as well
C6_Witness ==
    /\ pc = "seeding"
    /\ grid.size = GridSize(3, 3)
    /\ living_cells(grid) = InBounds(grid.size) \ {Position(1, 2)}
    /\ count_living_neighbors(grid, Position(0, 0)) = 3
    /\ count_living_neighbors(grid, Position(1, 1)) = 7

(***************************************************************************)
(* C7: count_living_neighbors is at most 3 at a corner, at most 5 at an    *)
(* edge position that is no corner and at most 8 inside; on a grid of at   *)
(* least 3 x 3 whose cells are all alive it is exactly 3, 5 and 8.         *)
(***************************************************************************)
OnEdge(size, p) ==
    \/ p.row \in {0, size.height - 1}
    \/ p.col \in {0, size.width - 1}

IsCorner(size, p) ==
    /\ p.row \in {0, size.height - 1}
    /\ p.col \in {0, size.width - 1}

Cap(size, p) ==
    IF IsCorner(size, p) THEN 3 ELSE IF OnEdge(size, p) THEN 5 ELSE 8

C7_BoundaryCounts ==
    pc # "start" =>
        /\ \A p \in InBounds(grid.size) :
              count_living_neighbors(grid, p) <= Cap(grid.size, p)
        /\ ( /\ grid.size.width >= 3
             /\ grid.size.height >= 3
             /\ living_cells(grid) = InBounds(grid.size) )
           => \A p \in InBounds(grid.size) :
                 count_living_neighbors(grid, p) = Cap(grid.size, p)

\* the 3 x 3 grid with every cell alive: a corner, an edge and the centre
C7_Witness ==
    /\ pc # "start"
    /\ grid.size = GridSize(3, 3)
    /\ living_cells(grid) = InBounds(grid.size)
    /\ count_living_neighbors(grid, Position(0, 0)) = 3
    /\ count_living_neighbors(grid, Position(0, 1)) = 5
    /\ count_living_neighbors(grid, Position(1, 1)) = 8

(***************************************************************************)
(* C8: get_cell(p) returns the stored cell when p is in bounds and a dead  *)
(* cell when p is out of bounds; it raises nothing and leaves the grid as  *)
(* it is.                                                                  *)
(***************************************************************************)
C8_GetCell ==
    [][(pc = "seeding" /\ call'.op = "get_cell") =>
          \A p \in CallPositions :
              GetCell(p) =>
                  /\ call'.cell = IF p \in InBounds(grid.size)
                                  THEN grid.cells[p]
                                  ELSE dead_cell
                  /\ ~call'.raised
                  /\ grid' = grid]_vars

\* get_cell was called out of bounds on a grid whose cells are all alive,
\* and returned a dead cell
C8_Witness ==
    /\ call.op = "get_cell"
    /\ ~call.in_bounds
    /\ is_dead(call.cell)
    /\ grid.size = GridSize(2, 2)
    /\ living_cells(grid) = InBounds(grid.size)

(***************************************************************************)
(* C9: set_cell(p, c) with p out of bounds raises the out-of-bounds error  *)
(* and leaves the grid as it is (no entry for p appears); with p in bounds *)
(* it raises nothing, the cell at p becomes c and every other entry stays. *)
(* (The cell c of the call is the one the call record holds afterwards.)   *)
(***************************************************************************)
C9_SetCell ==
    [][(pc = "seeding" /\ call'.op = "set_cell") =>
          \A p \in CallPositions :
              SetCell(p, call'.cell) =>
                  IF p \in InBounds(grid.size)
                  THEN /\ ~call'.raised
                       /\ grid'.size = grid.size
                       /\ DOMAIN grid'.cells = DOMAIN grid.cells
                       /\ grid'.cells[p] = call'.cell
                       /\ \A q \in DOMAIN grid.cells \ {p} :
                             grid'.cells[q] = grid.cells[q]
                  ELSE /\ call'.raised
                       /\ grid' = grid
                       /\ p \notin DOMAIN grid'.cells]_vars

\* a set_cell with an alive cell was rejected on a grid that holds living
\* cells: the grid still has its four entries
C9_Witness ==
    /\ call.op = "set_cell"
    /\ call.raised
    /\ ~call.in_bounds
    /\ is_alive(call.cell)
    /\ grid.size = GridSize(2, 2)
    /\ Cardinality(living_cells(grid)) = 2
    /\ Cardinality(DOMAIN grid.cells) = 4

(***************************************************************************)
(* C10: constructing a GridSize with width <= 0 or height <= 0 fails, so   *)
(* no Grid (and no engine) is ever built on a size with a non-positive     *)
(* dimension.                                                              *)
(***************************************************************************)
C10_PositiveDimensions ==
    pc # "start" => grid.size.width > 0 /\ grid.size.height > 0

(***************************************************************************)
(* The tests of the plan call step() themselves, on engines they build on  *)
(* seeded grids.                                                           *)
(***************************************************************************)
\* the loop of create_random_grid from the i-th position on, `chosen` being
\* the positions where random.random() < config.initial_density came true
RECURSIVE SeedFrom(_, _, _, _)
SeedFrom(g, positions, chosen, i) ==
    IF i > Len(positions)
    THEN g
    ELSE IF positions[i] \in chosen
         THEN SeedFrom(set_cell(g, positions[i], alive_cell).grid,
                       positions, chosen, i + 1)
         ELSE SeedFrom(g, positions, chosen, i + 1)

create_random_grid(size, chosen) ==
    SeedFrom(Grid(size), all_positions(size), chosen, 1)

\* the sizes tried
Sizes ==
    {size \in {GridSize(w, h) : w \in Dims, h \in Dims} :
        (size.width > 0 /\ size.height > 0)
            => size.width * size.height <= MaxCells}

\* the grids the seeding can produce
SeededGrids ==
    UNION {{create_random_grid(size, chosen) : chosen \in SUBSET InBounds(size)} :
              size \in Sizes}

\* engine.step(), called by a test on the engine it has built
Step ==
    /\ pc = "created"
    /\ generation < MaxGen
    /\ LET outcome == calculate_next_generation(grid)
       IN  IF outcome.raised
           THEN /\ pc' = "crashed"
                /\ UNCHANGED <<grid, generation, grid_replacements,
                               completed_steps>>
           ELSE /\ grid' = outcome.grid
                /\ generation' = next(generation)
                /\ grid_replacements' = grid_replacements + 1
                /\ completed_steps' = completed_steps + 1
                /\ pc' = pc
    /\ UNCHANGED <<call, exit_message, rendered, cycle, interrupted_at, twin,
                   pattern, config, memory>>

\* step() called on the second engine
TwinStep ==
    /\ pc = "created"
    /\ twin.generation < MaxGen
    /\ LET outcome == calculate_next_generation(twin.grid)
       IN  IF outcome.raised
           THEN pc' = "crashed" /\ UNCHANGED twin
           ELSE /\ twin' = [grid |-> outcome.grid,
                            generation |-> next(twin.generation)]
                /\ pc' = pc
    /\ UNCHANGED <<grid, generation, call, exit_message, grid_replacements,
                   completed_steps, rendered, cycle, interrupted_at, pattern, config, memory>>

\* test_same_seed_produces_same_sequence: two engines on equal grids
InitTwins ==
    /\ pc = "created"
    /\ grid \in SeededGrids
    /\ twin = [grid |-> grid, generation |-> 0]
    /\ generation = 0
    /\ call = NoCall
    /\ exit_message = <<>>
    /\ grid_replacements = 0
    /\ completed_steps = 0
    /\ rendered = <<>>
    /\ cycle = <<>>
    /\ interrupted_at = "none"
    /\ pattern = NoPattern
    /\ config = NoConfig
    /\ memory = NoMemory

NextTwins ==
    \/ Step
    \/ TwinStep

SpecTwins == InitTwins /\ [][NextTwins]_vars

C12_EmptyGridStasis ==
    (rendered # <<>> /\ living_cells(rendered[1].grid) = {})
        => /\ living_cells(grid) = {}
           /\ \A i \in 1..Len(rendered) : living_cells(rendered[i].grid) = {}

\* the all-dead 3 x 3 grid after MaxGen steps
C12_Witness ==
    /\ rendered # <<>>
    /\ living_cells(rendered[1].grid) = {}
    /\ grid.size = GridSize(3, 3)
    /\ generation = MaxGen
    /\ living_cells(grid) = {}

(***************************************************************************)
(* C13 as stated: from a grid whose cells are all alive, one step() leaves *)
(* every cell dead.                                                        *)
(***************************************************************************)
AllAlive(g) == living_cells(g) = InBounds(g.size)

CellsAround(size, p) == {q \in InBounds(size) : Adjacent(p, q)}

BlockCells == {Position(0, 0), Position(0, 1), Position(1, 0), Position(1, 1)}

HorizontalLine == {Position(1, 0), Position(1, 1), Position(1, 2)}

VerticalLine == {Position(0, 1), Position(1, 1), Position(2, 1)}

GliderCells ==
    {Position(0, 1), Position(1, 2), Position(2, 0), Position(2, 1), Position(2, 2)}

PatternCells(name) ==
    CASE name = "block" -> BlockCells
      [] name = "blinker_horizontal" -> HorizontalLine
      [] name = "blinker_vertical" -> VerticalLine
      [] name = "glider" -> GliderCells

PatternNames == {"block", "blinker_horizontal", "blinker_vertical", "glider"}

Translate(cells, r, c) == {Position(p.row + r, p.col + c) : p \in cells}

PatternSizes == {GridSize(w, h) : w \in 3..PatternSide, h \in 3..PatternSide}

\* the test builds Grid(size) and sets the cells of the pattern alive
seed_pattern(size, name, r, c) ==
    LET empty == Grid(size)
    IN  SeedFrom(empty, all_positions(empty.size),
                 Translate(PatternCells(name), r, c), 1)

InitPatterns ==
    /\ pc = "created"
    /\ \E size \in PatternSizes, name \in PatternNames :
         \E r \in 0..(size.height - 1), c \in 0..(size.width - 1) :
            /\ Translate(PatternCells(name), r, c) \subseteq InBounds(size)
            /\ pattern = [name |-> name, row |-> r, col |-> c]
            /\ grid = seed_pattern(size, name, r, c)
    /\ twin = NoTwin
    /\ generation = 0
    /\ call = NoCall
    /\ exit_message = <<>>
    /\ grid_replacements = 0
    /\ completed_steps = 0
    /\ rendered = <<>>
    /\ cycle = <<>>
    /\ interrupted_at = "none"
    /\ config = NoConfig
    /\ memory = NoMemory

NextPatterns == Step

SpecPatterns == InitPatterns /\ [][NextPatterns]_vars

\* the box of `rows` x `cols` cells at the pattern's corner lies inside the
\* grid with at least one row and one column to spare on every side
AwayFromEdges(rows, cols) ==
    /\ pattern.row >= 1
    /\ pattern.col >= 1
    /\ pattern.row + rows <= grid.size.height - 1
    /\ pattern.col + cols <= grid.size.width - 1

(***************************************************************************)
(* C14: a 2 x 2 block of alive cells, all other cells dead, placed away    *)
(* from the edges, is a fixed point: after any number of steps the living  *)
(* cells are the same four positions.                                      *)
(***************************************************************************)
C14_BlockIsStill ==
    (pattern.name = "block" /\ AwayFromEdges(2, 2))
        => living_cells(grid) =
              {Position(pattern.row, pattern.col),
               Position(pattern.row, pattern.col + 1),
               Position(pattern.row + 1, pattern.col),
               Position(pattern.row + 1, pattern.col + 1)}

\* the block in the middle of a 4 x 4 grid after MaxGen steps
C14_Witness ==
    /\ pattern = [name |-> "block", row |-> 1, col |-> 1]
    /\ grid.size = GridSize(4, 4)
    /\ AwayFromEdges(2, 2)
    /\ generation = MaxGen
    /\ Cardinality(living_cells(grid)) = 4

(***************************************************************************)
(* C15: a line of exactly 3 alive cells, all other cells dead, with the    *)
(* 3 x 3 box around its centre inside the grid (as it is for a line        *)
(* centred in a grid of at least 3 x 3): after an odd number of steps the  *)
(* living cells are the perpendicular line through the same centre, after  *)
(* an even number the original line; the two lines differ (period 2).      *)
(***************************************************************************)
RowLine(r, c) == {Position(r + 1, c), Position(r + 1, c + 1), Position(r + 1, c + 2)}

ColumnLine(r, c) == {Position(r, c + 1), Position(r + 1, c + 1), Position(r + 2, c + 1)}

\* the 3 x 3 box around the centre of the line lies inside the grid
BoxInGrid ==
    /\ pattern.row + 3 <= grid.size.height
    /\ pattern.col + 3 <= grid.size.width

C15_BlinkerOscillates ==
    /\ (pattern.name = "blinker_horizontal" /\ BoxInGrid) =>
          /\ generation % 2 = 0 => living_cells(grid) = RowLine(pattern.row, pattern.col)
          /\ generation % 2 = 1 => living_cells(grid) = ColumnLine(pattern.row, pattern.col)
    /\ (pattern.name = "blinker_vertical" /\ BoxInGrid) =>
          /\ generation % 2 = 0 => living_cells(grid) = ColumnLine(pattern.row, pattern.col)
          /\ generation % 2 = 1 => living_cells(grid) = RowLine(pattern.row, pattern.col)
    /\ pattern.name \in {"blinker_horizontal", "blinker_vertical"} =>
          RowLine(pattern.row, pattern.col) # ColumnLine(pattern.row, pattern.col)

\* the horizontal line centred in a 5 x 5 grid, after one step: the column
C15_Witness ==
    /\ pattern = [name |-> "blinker_horizontal", row |-> 1, col |-> 1]
    /\ grid.size = GridSize(5, 5)
    /\ BoxInGrid
    /\ generation = 1
    /\ living_cells(grid) = {Position(1, 2), Position(2, 2), Position(3, 2)}

(***************************************************************************)
(* C16: a glider placed away from the edges (its 3 x 3 box has a row and a *)
(* column to spare on every side): after 4 steps the living cells are the  *)
(* glider's cells one row down and one column to the right.                *)
(***************************************************************************)
C16_GliderMoves ==
    (pattern.name = "glider" /\ AwayFromEdges(3, 3) /\ generation = 4)
        => living_cells(grid) =
              Translate(GliderCells, pattern.row + 1, pattern.col + 1)

\* the glider seeded at (1, 1) of a 5 x 5 grid, after 4 steps
C16_Witness ==
    /\ pattern = [name |-> "glider", row |-> 1, col |-> 1]
    /\ grid.size = GridSize(5, 5)
    /\ AwayFromEdges(3, 3)
    /\ generation = 4
    /\ Position(4, 4) \in living_cells(grid)
    /\ Cardinality(living_cells(grid)) = 5

LoopStatement == Render \/ Sleep \/ StepGrid \/ StepGeneration

C18_Lifecycle ==
    /\ [](pc = "stopped" => (interrupted_at # "none" /\ exit_message # <<>>))
    /\ [][pc = "stopped" => UNCHANGED vars]_vars
    /\ [][pc' = "stopped" => (Running /\ KeyboardInterrupt)]_vars
    /\ [][(Running' /\ ~Running) => pc = "created"]_vars
    /\ [][LoopStatement => Running']_vars

\* the loop has kept stepping an all-dead grid until the interrupt came
C18_Witness ==
    /\ pc = "stopped"
    /\ interrupted_at = "render"
    /\ generation = 3
    /\ Len(rendered) = 3
    /\ living_cells(rendered[1].grid) = {}
    /\ grid.size = GridSize(3, 3)

(***************************************************************************)
(* C19: after the KeyboardInterrupt the exit message has been issued       *)
(* exactly once, with the engine's generation, which is the number of      *)
(* completed steps; before it no exit message has been issued; and the     *)
(* program never ends with an exception.                                   *)
(***************************************************************************)
C19_ExitMessage ==
    /\ pc = "stopped" =>
          /\ exit_message = <<generation>>
          /\ generation = completed_steps
    /\ pc # "stopped" => exit_message = <<>>
    /\ pc # "crashed"

\* interrupted during the delay after two completed steps
C19_Witness ==
    /\ pc = "stopped"
    /\ interrupted_at = "sleep"
    /\ completed_steps = 2
    /\ exit_message = <<2>>

(***************************************************************************)
(* C20 as stated: the interrupt breaks the loop only when the render/delay *)
(* cycle in progress is complete, and never inside a step: when the loop   *)
(* has stopped every grid replacement has been followed by its generation  *)
(* advance.                                                                *)
(***************************************************************************)
C20_CooperativeCancellation ==
    pc = "stopped" =>
        /\ cycle \in {<<>>, <<"render", "delay">>}
        /\ interrupted_at # "advance"
        /\ grid_replacements = completed_steps

(***************************************************************************)
(* C21: no error occurs in step() or in the run loop: on every grid the    *)
(* engine holds, every position the next grid is built from lies inside    *)
(* the grid, building the next grid raises no ValueError, and the program  *)
(* is never left by an exception.                                          *)
(***************************************************************************)
C21_NoErrorInStep ==
    /\ pc # "crashed"
    /\ (pc = "created" \/ Running) =>
          /\ \A i \in 1..Len(all_positions(grid.size)) :
                contains(grid.size, all_positions(grid.size)[i])
          /\ ~calculate_next_generation(grid).raised

\* two steps made on a 3 x 2 grid that holds living cells
C21_Witness ==
    /\ pc = "advance"
    /\ grid_replacements = 2
    /\ grid.size = GridSize(3, 2)
    /\ living_cells(grid) # {}
    /\ ~calculate_next_generation(grid).raised

(***************************************************************************)
(* GameConfig: a test constructs a configuration from a grid_size and an   *)
(* initial_density. The density d is held as the integer d * DensityScale, *)
(* so 0.0 is 0 and 1.0 is DensityScale.                                    *)
(***************************************************************************)
\* the positivity test off by one: a grid_size of 0 is accepted
post_init_accepting_zero(grid_size, initial_density) ==
    IF ~(0 <= initial_density /\ initial_density <= DensityScale)
    THEN "Density must be between 0 and 1"
    ELSE IF grid_size < 0
         THEN "Grid size must be positive"
         ELSE "none"

\* __post_init__: the ValueError it raises, "none" when it returns
post_init(grid_size, initial_density) ==
    IF ~(0 <= initial_density /\ initial_density <= DensityScale)
    THEN "Density must be between 0 and 1"
    ELSE IF grid_size < 1
         THEN "Grid size must be positive"
         ELSE "none"

GameConfig(grid_size, initial_density) ==
    [grid_size |-> grid_size, initial_density |-> initial_density,
     error |-> post_init(grid_size, initial_density)]

\* the densities tried: -1.0, ..., 0.0, ..., 1.0, ..., 2.0
Densities == (0 - DensityScale)..(2 * DensityScale)

\* config = GameConfig(grid_size=..., initial_density=...)
NewConfig(grid_size, initial_density) ==
    /\ pc = "start"
    /\ config = NoConfig
    /\ config' = GameConfig(grid_size, initial_density)
    /\ UNCHANGED <<pc, grid, generation, call, exit_message, grid_replacements,
                   completed_steps, rendered, cycle, interrupted_at, twin,
                   pattern, memory>>

NextConfig == \E grid_size \in Dims, initial_density \in Densities :
                  NewConfig(grid_size, initial_density)

SpecConfig == Init /\ [][NextConfig]_vars

(***************************************************************************)
(* C22: constructing a GameConfig fails exactly when the density lies      *)
(* outside [0, 1] or the grid_size is not positive; in particular the      *)
(* densities 0 and 1 and the grid_size 1 are accepted.                     *)
(***************************************************************************)
C22_ConfigValidation ==
    config # NoConfig =>
        /\ config.error # "none" <=>
              \/ config.initial_density < 0
              \/ config.initial_density > DensityScale
              \/ config.grid_size <= 0
        /\ (config.initial_density \in {0, DensityScale} /\ config.grid_size = 1)
              => config.error = "none"

\* the configuration with density 1.0 and grid_size 1 has been accepted
C22_Witness ==
    /\ config.initial_density = DensityScale
    /\ config.grid_size = 1
    /\ config.error = "none"

(***************************************************************************)
(* Grid objects by reference. A Grid is a mutable object: set_cell changes *)
(* the object it is called on, and self.grid, new_grid and the argument of *)
(* Display.render are references. `objects` is the list of the Grid        *)
(* objects that exist; a reference is an index into it.                    *)
(***************************************************************************)
\* new_grid = self.grid: no new object, a second name for the current one
new_grid_aliasing(objects, current) == [objects |-> objects, ref |-> current]

\* new_grid = Grid(self.grid.size()): a new object
new_grid(objects, current) ==
    [objects |-> Append(objects, Grid(objects[current].size)),
     ref |-> Len(objects) + 1]

\* the loop of _calculate_next_generation from the i-th position on: the
\* cells are read from the object `current`, set_cell is called on `ref`
RECURSIVE NextGenerationInto(_, _, _, _, _)
NextGenerationInto(objects, current, ref, positions, i) ==
    IF i > Len(positions)
    THEN [objects |-> objects, ref |-> ref, raised |-> FALSE]
    ELSE LET position == positions[i]
             current_cell == get_cell(objects[current], position)
             neighbor_count == count_living_neighbors(objects[current], position)
             next_cell == calculate_next_state(current_cell, neighbor_count)
             outcome == set_cell(objects[ref], position, next_cell)
         IN  IF outcome.raised
             THEN [objects |-> objects, ref |-> ref, raised |-> TRUE]
             ELSE NextGenerationInto([objects EXCEPT ![ref] = outcome.grid],
                                     current, ref, positions, i + 1)

\* _calculate_next_generation on the objects: the objects afterwards and
\* the reference it returns
calculate_next_generation_by_reference(objects, current) ==
    LET allocated == new_grid(objects, current)
    IN  NextGenerationInto(allocated.objects, current, allocated.ref,
                           all_positions(objects[current].size), 1)

\* a test builds an engine on a seeded grid, then calls display.render and
\* engine.step() in turn
InitObjects ==
    /\ pc = "created"
    /\ grid \in SeededGrids
    /\ memory = [objects |-> <<grid>>, self_grid |-> 1, rules |-> "GameRules",
                 display |-> "ConsoleDisplay", config |-> "GameConfig",
                 shown |-> <<>>]
    /\ generation = 0
    /\ call = NoCall
    /\ exit_message = <<>>
    /\ grid_replacements = 0
    /\ completed_steps = 0
    /\ rendered = <<>>
    /\ cycle = <<>>
    /\ interrupted_at = "none"
    /\ twin = NoTwin
    /\ pattern = NoPattern
    /\ config = NoConfig

\* self.display.render(self.grid, self.generation): the display is handed
\* the reference; `seen` is what the object held at that moment
RenderObject ==
    /\ pc = "created"
    /\ Len(memory.shown) = generation
    /\ memory' = [memory EXCEPT !.shown =
                     Append(@, [ref |-> memory.self_grid,
                                seen |-> memory.objects[memory.self_grid],
                                generation |-> generation])]
    /\ UNCHANGED <<pc, grid, generation, call, exit_message, grid_replacements,
                   completed_steps, rendered, cycle, interrupted_at, twin,
                   pattern, config>>

\* engine.step() on the objects; `grid` follows as the value the engine's
\* grid has by calculate_next_generation
StepObjects ==
    /\ pc = "created"
    /\ Len(memory.shown) = generation + 1
    /\ generation < MaxGen
    /\ LET outcome == calculate_next_generation_by_reference(memory.objects,
                                                             memory.self_grid)
       IN  IF outcome.raised
           THEN /\ pc' = "crashed"
                /\ UNCHANGED <<grid, generation, grid_replacements,
                               completed_steps>>
                /\ memory' = [memory EXCEPT !.objects = outcome.objects]
           ELSE /\ memory' = [memory EXCEPT !.objects = outcome.objects,
                                            !.self_grid = outcome.ref]
                /\ grid' = calculate_next_generation(grid).grid
                /\ generation' = next(generation)
                /\ grid_replacements' = grid_replacements + 1
                /\ completed_steps' = completed_steps + 1
                /\ pc' = pc
    /\ UNCHANGED <<call, exit_message, rendered, cycle, interrupted_at, twin,
                   pattern, config>>

NextObjects ==
    \/ RenderObject
    \/ StepObjects

SpecObjects == InitObjects /\ [][NextObjects]_vars

(***************************************************************************)
(* C23: step() never modifies the Grid that was current before it: every   *)
(* Grid object that was handed to Display.render still reports, at every   *)
(* position, the cell it reported then; the object the engine refers to    *)
(* holds the grid calculate_next_generation gives; and a step leaves the   *)
(* object it started from, and the engine's rules, display and config, as  *)
(* they were.                                                              *)
(***************************************************************************)
C23_StepLeavesOldGrid ==
    /\ [](\A i \in 1..Len(memory.shown) :
            LET object == memory.objects[memory.shown[i].ref]
                seen == memory.shown[i].seen
            IN  /\ object.size = seen.size
                /\ \A p \in CallPositions : get_cell(object, p) = get_cell(seen, p))
    /\ [](memory.self_grid # 0 => memory.objects[memory.self_grid] = grid)
    /\ [][StepObjects =>
            /\ memory'.objects[memory.self_grid] = memory.objects[memory.self_grid]
            /\ memory'.rules = memory.rules
            /\ memory'.display = memory.display
            /\ memory'.config = memory.config]_vars

\* three renders and two steps on a 3 x 3 grid: the object rendered first
\* is not the engine's current one and differs from it
C23_Witness ==
    /\ Len(memory.shown) = 3
    /\ generation = 2
    /\ grid.size = GridSize(3, 3)
    /\ memory.shown[1].ref # memory.self_grid
    /\ memory.objects[memory.shown[1].ref] = memory.shown[1].seen
    /\ memory.shown[1].seen # grid

(***************************************************************************)
(* C24 as stated: for the size of every Grid that is built,                *)
(* all_positions() yields exactly width * height positions, every          *)
(* position of the grid exactly once, in row-major order, each of them     *)
(* passing contains.                                                       *)
(***************************************************************************)
C24_AllPositions ==
    pc # "start" =>
        LET size == grid.size
            positions == all_positions(size)
        IN  /\ Len(positions) = size.width * size.height
            /\ Elements(positions) = InBounds(size)
            /\ \A i \in 1..Len(positions) :
                  /\ positions[i] = Position((i - 1) \div size.width,
                                             (i - 1) % size.width)
                  /\ contains(size, positions[i])
            /\ \A i, j \in 1..Len(positions) :
                  i # j => positions[i] # positions[j]

(***************************************************************************)
(* C25: for every position of the grid and of the ring just outside it,    *)
(* neighbors() returns 8 pairwise-distinct positions, the position moved   *)
(* by (-1,-1), (-1,0), (-1,1), (0,-1), (0,1), (1,-1), (1,0), (1,1) in this *)
(* order; the position itself is not among them, and positions outside     *)
(* the grid are returned for the cells of the edges.                       *)
(***************************************************************************)
ExpectedOffsets ==
    << <<0 - 1, 0 - 1>>, <<0 - 1, 0>>, <<0 - 1, 1>>,
       <<0, 0 - 1>>, <<0, 1>>,
       <<1, 0 - 1>>, <<1, 0>>, <<1, 1>> >>

C25_Neighbors ==
    pc # "start" =>
        \A p \in CallPositions :
            LET around == neighbors(p)
            IN  /\ Len(around) = 8
                /\ Cardinality(Elements(around)) = 8
                /\ \A k \in 1..Len(around) :
                      /\ k <= Len(ExpectedOffsets)
                      /\ around[k] = Position(p.row + ExpectedOffsets[k][1],
                                              p.col + ExpectedOffsets[k][2])
                /\ p \notin Elements(around)
                /\ (p \in InBounds(grid.size) /\ OnEdge(grid.size, p))
                      => \E k \in 1..Len(around) : ~contains(grid.size, around[k])

\* a step has been made on a 3 x 3 grid: the neighbours of its corner (0, 0)
\* include the position (-1, -1)
C25_Witness ==
    /\ pc = "advance"
    /\ grid.size = GridSize(3, 3)
    /\ neighbors(Position(0, 0))[1] = Position(0 - 1, 0 - 1)
    /\ ~contains(grid.size, neighbors(Position(0, 0))[1])
    /\ Len(neighbors(Position(0, 0))) = 8

(***************************************************************************)
(* The original program: the grid is a list of GRID_SIZE rows of GRID_SIZE *)
(* booleans (List[List[bool]]), read as grid[row][col]. A Python index i   *)
(* is the index i + 1 of the sequence.                                     *)
(***************************************************************************)
\* grid[row][col]
At(array, row, col) == array[row + 1][col + 1]

\* the original _count_neighbors(row, col): the (dr, dc) that are not
\* skipped by `continue` and pass the bounds test and the cell test
original_count_neighbors(array, GRID_SIZE, row, col) ==
    Cardinality(
        {k \in 1..Len(OffsetPairs) :
            /\ ~(OffsetPairs[k].dr = 0 /\ OffsetPairs[k].dc = 0)
            /\ LET neighbor_row == row + OffsetPairs[k].dr
                   neighbor_col == col + OffsetPairs[k].dc
               IN  /\ 0 <= neighbor_row /\ neighbor_row < GRID_SIZE
                   /\ 0 <= neighbor_col /\ neighbor_col < GRID_SIZE
                   /\ At(array, neighbor_row, neighbor_col)})

\* the original rule: new_grid[row][col] = neighbors in [2, 3] for a living
\* cell, neighbors == 3 for a dead one
original_next_state(is_alive_now, neighbors_counted) ==
    IF is_alive_now
    THEN neighbors_counted \in {2, 3}
    ELSE neighbors_counted = 3

\* the original _calculate_next_generation: new_grid filled for every row
\* and col from the cells and the neighbour counts of self.grid
original_calculate_next_generation(array, GRID_SIZE) ==
    [r \in 1..GRID_SIZE |->
        [c \in 1..GRID_SIZE |->
            original_next_state(At(array, r - 1, c - 1),
                original_count_neighbors(array, GRID_SIZE, r - 1, c - 1))]]

\* the 2D boolean array that holds the cells of a Grid
ToArray(g) ==
    [r \in 1..g.size.height |->
        [c \in 1..g.size.width |-> is_alive(g.cells[Position(r - 1, c - 1)])]]

IsSquare(size) == size.width = size.height /\ size.width > 0

(***************************************************************************)
(* C26: the refactored engine behaves as the original program: on every    *)
(* square grid, count_living_neighbors gives for every position of the     *)
(* grid the count of the original _count_neighbors on the 2D array;        *)
(* calculate_next_state agrees with the original rule for every cell and   *)
(* every count; and the grid after a step is the array the original        *)
(* _calculate_next_generation gives.                                       *)
(***************************************************************************)
C26_SameAsOriginal ==
    /\ []((pc # "start" /\ IsSquare(grid.size)) =>
            \A p \in InBounds(grid.size) :
                count_living_neighbors(grid, p) =
                    original_count_neighbors(ToArray(grid), grid.size.width,
                                             p.row, p.col))
    /\ [](\A alive \in BOOLEAN, count \in 0..8 :
            is_alive(calculate_next_state(alive, count)) =
                original_next_state(is_alive(alive), count))
    /\ [][(StepGrid /\ IsSquare(grid.size)) =>
            ToArray(grid') =
                original_calculate_next_generation(ToArray(grid),
                                                   grid.size.width)]_vars

\* a step has been made on a 3 x 3 grid with living cells, and has changed it
C26_Witness ==
    /\ pc = "advance"
    /\ grid.size = GridSize(3, 3)
    /\ rendered # <<>>
    /\ living_cells(rendered[Len(rendered)].grid) # {}
    /\ grid # rendered[Len(rendered)].grid
    /\ ToArray(grid) =
          original_calculate_next_generation(
              ToArray(rendered[Len(rendered)].grid), 3)

(***************************************************************************)
(* C27: the generation numbers handed to Display.render are 0, 1, 2, ...   *)
(* in this order, none skipped and none twice, and the grid rendered with  *)
(* the number n is the grid rendered first with the transition applied n   *)
(* times (stated of the latest render: every render has been the latest).  *)
(***************************************************************************)
RECURSIVE Transitions(_, _)
Transitions(g, n) ==
    IF n = 0 THEN g ELSE calculate_next_generation(Transitions(g, n - 1)).grid

C27_RenderedSequence ==
    /\ \A i \in 1..Len(rendered) : rendered[i].generation = i - 1
    /\ rendered # <<>> =>
          rendered[Len(rendered)].grid =
              Transitions(rendered[1].grid, Len(rendered) - 1)

\* four renders of a grid that is still changing
C27_Witness ==
    /\ Len(rendered) = 4
    /\ rendered[4].generation = 3
    /\ rendered[4].grid # rendered[3].grid
    /\ rendered[4].grid = Transitions(rendered[1].grid, 3)

(***************************************************************************)
(* C28: after set_cell(p, c) with p in bounds, get_cell(p) returns c,      *)
(* get_cell(q) returns what it returned before for every other position q *)
(* (of the grid or outside it), the size of the grid is as before, and a   *)
(* second set_cell(p, c) changes nothing.                                  *)
(***************************************************************************)
C28_SetThenGet ==
    [][(pc = "seeding" /\ call'.op = "set_cell" /\ call'.in_bounds) =>
          \A p \in InBounds(grid.size) :
              SetCell(p, call'.cell) =>
                  /\ get_cell(grid', p) = call'.cell
                  /\ \A q \in CallPositions \ {p} :
                        get_cell(grid', q) = get_cell(grid, q)
                  /\ grid'.size = grid.size
                  /\ set_cell(grid', p, call'.cell) =
                        [grid |-> grid', raised |-> FALSE]]_vars

\* an alive cell has been set in a 3 x 2 grid that held one living cell, and
\* get_cell returns it
C28_Witness ==
    /\ pc = "seeding"
    /\ call.op = "set_cell"
    /\ call.in_bounds
    /\ ~call.raised
    /\ is_alive(call.cell)
    /\ grid.size = GridSize(3, 2)
    /\ Cardinality(living_cells(grid)) = 2
    /\ is_alive(get_cell(grid, Position(1, 2)))

(***************************************************************************)
(* A test builds two engines on two grids of one size, of any content, and *)
(* calls step() on both.                                                   *)
(***************************************************************************)
PairSizes ==
    {size \in Sizes :
        (size.width > 0 /\ size.height > 0)
            => size.width * size.height <= PairCells}

InitPairs ==
    /\ pc = "created"
    /\ \E size \in PairSizes :
         \E first \in SUBSET InBounds(size), second \in SUBSET InBounds(size) :
            /\ grid = create_random_grid(size, first)
            /\ twin = [grid |-> create_random_grid(size, second), generation |-> 0]
    /\ generation = 0
    /\ call = NoCall
    /\ exit_message = <<>>
    /\ grid_replacements = 0
    /\ completed_steps = 0
    /\ rendered = <<>>
    /\ cycle = <<>>
    /\ interrupted_at = "none"
    /\ pattern = NoPattern
    /\ config = NoConfig
    /\ memory = NoMemory

\* step() on the first engine, then step() on the second
StepPair ==
    /\ pc = "created"
    /\ generation < MaxGen
    /\ LET outcome == calculate_next_generation(grid)
           other == calculate_next_generation(twin.grid)
       IN  IF outcome.raised \/ other.raised
           THEN /\ pc' = "crashed"
                /\ UNCHANGED <<grid, generation, grid_replacements,
                               completed_steps, twin>>
           ELSE /\ grid' = outcome.grid
                /\ generation' = next(generation)
                /\ grid_replacements' = grid_replacements + 1
                /\ completed_steps' = completed_steps + 1
                /\ twin' = [grid |-> other.grid,
                            generation |-> next(twin.generation)]
                /\ pc' = pc
    /\ UNCHANGED <<call, exit_message, rendered, cycle, interrupted_at,
                   pattern, config, memory>>

NextPairs == StepPair

SpecPairs == InitPairs /\ [][NextPairs]_vars

(***************************************************************************)
(* C29: the next cell at p depends on the cells at p and at its in-bounds  *)
(* neighbours only: when two grids of one size hold the same cell at p and *)
(* at every position next to p, a step gives both the same cell at p,      *)
(* whatever the other cells are.                                           *)
(***************************************************************************)
AgreeAround(g, h, p) ==
    \A q \in InBounds(g.size) : (q = p \/ Adjacent(p, q)) => g.cells[q] = h.cells[q]

C29_LocalDependence ==
    [][StepPair =>
          /\ twin.grid.size = grid.size
          /\ \A p \in InBounds(grid.size) :
                AgreeAround(grid, twin.grid, p)
                    => grid'.cells[p] = twin'.grid.cells[p]]_vars

\* both engines have made a step; their grids differ, but hold the same
\* cells at (0, 0) and around it, and will get the same cell there
C29_Witness ==
    /\ generation = 1
    /\ twin.generation = 1
    /\ grid.size = GridSize(3, 2)
    /\ twin.grid # grid
    /\ AgreeAround(grid, twin.grid, Position(0, 0))
    /\ is_alive(grid.cells[Position(0, 0)])
    /\ calculate_next_generation(grid).grid.cells[Position(0, 0)] =
          calculate_next_generation(twin.grid).grid.cells[Position(0, 0)]

(***************************************************************************)
(* C30: step() commutes with the transposition of the grid (row and col    *)
(* swapped, width and height swapped): the step of the transposed grid is  *)
(* the transposed grid of the step, for every grid the engine steps; in    *)
(* particular on a 3 x 3 grid the horizontal line becomes the vertical     *)
(* line and the vertical line the horizontal one.                          *)
(***************************************************************************)
Transposed(g) ==
    [size |-> GridSize(g.size.height, g.size.width),
     cells |-> [p \in {Position(q.col, q.row) : q \in DOMAIN g.cells} |->
                   g.cells[Position(p.col, p.row)]]]

C30_TransposeCommutes ==
    [][StepGrid =>
          /\ calculate_next_generation(Transposed(grid)) =
                [grid |-> Transposed(grid'), raised |-> FALSE]
          /\ (grid.size = GridSize(3, 3) /\ living_cells(grid) = HorizontalLine)
                => living_cells(grid') = VerticalLine
          /\ (grid.size = GridSize(3, 3) /\ living_cells(grid) = VerticalLine)
                => living_cells(grid') = HorizontalLine]_vars

\* a step has been made on a 3 x 2 grid with living cells that is not the
\* mirror image of itself, and has left living cells
C30_Witness ==
    /\ pc = "advance"
    /\ grid.size = GridSize(3, 2)
    /\ rendered # <<>>
    /\ Transposed(rendered[Len(rendered)].grid).size = GridSize(2, 3)
    /\ calculate_next_generation(Transposed(rendered[Len(rendered)].grid)).grid
          = Transposed(grid)
    /\ living_cells(grid) # {}
    /\ living_cells(Transposed(grid)) # living_cells(grid)

====
